---- MODULE Spec2Model ----
(***************************************************************************)
(* A model of package jamle (src/jamle.go): Unmarshal, walkScalars,        *)
(* expandEnvInScalar and resolveVariable.                                   *)
(*                                                                         *)
(* A Go string is a sequence of one-character strings.  The two mask       *)
(* bytes "\x00" and "\x01" are the characters "NUL" and "SOH".  The        *)
(* process environment is a function from the bound names to their values: *)
(* a name outside its domain is unset, a name mapped to << >> is bound to  *)
(* the empty string.                                                        *)
(***************************************************************************)
EXTENDS Integers, Sequences, FiniteSets, TLC

\* src/jamle.go:42-45
maskStart == "NUL"
maskEnd == "SOH"

\* src/jamle.go:143, the pass bound of the main expansion loop
MaxPasses == 10

\* how many times Unmarshal is called in a row on the same data
MaxCalls == 2

\* the deepest chain of nested references beyond the pass bound
ExtraDepth == 1

----------------------------------------------------------------------------
(* Strings *)

Min(S) == CHOOSE x \in S : \A y \in S : x <= y

\* A character class that excludes the closing brace only.
IsClosingBrace(c) == c = "}"

\* The characters the class [^{}] of both regular expressions excludes.
IsBrace(c) == c = "{" \/ c = "}"

\* Index of the first "{" or "}" of s at or after k, 0 when there is none:
\* where the run [^{}]+ of both regular expressions stops.
RECURSIVE FirstBrace(_, _)
FirstBrace(s, k) ==
  IF k > Len(s) THEN 0
  ELSE IF IsBrace(s[k]) THEN k
  ELSE FirstBrace(s, k + 1)

\* envVarRegex \$\{([^{}]+)\} anchored at p: the index of the closing brace,
\* 0 when it does not match there.
EnvVarMatchAt(s, p) ==
  IF p + 3 <= Len(s) /\ s[p] = "$" /\ s[p + 1] = "{"
  THEN LET q == FirstBrace(s, p + 2)
       IN IF q > p + 2 /\ s[q] = "}" THEN q ELSE 0
  ELSE 0

\* The leftmost match of envVarRegex in s at or after from: <<start, end>>,
\* <<0, 0>> when there is none.
RECURSIVE EnvVarFind(_, _)
EnvVarFind(s, from) ==
  IF from > Len(s) THEN <<0, 0>>
  ELSE LET q == EnvVarMatchAt(s, from)
       IN IF q # 0 THEN <<from, q>> ELSE EnvVarFind(s, from + 1)

\* envVarRegex.MatchString
EnvVarMatchString(s) == EnvVarFind(s, 1)[1] # 0

\* escapedVarRegex \$\$\{([^{}]+)\} anchored at p.
EscapedMatchAt(s, p) ==
  IF p + 4 <= Len(s) /\ s[p] = "$" /\ s[p + 1] = "$" /\ s[p + 2] = "{"
  THEN LET q == FirstBrace(s, p + 3)
       IN IF q > p + 3 /\ s[q] = "}" THEN q ELSE 0
  ELSE 0

RECURSIVE EscapedFind(_, _)
EscapedFind(s, from) ==
  IF from > Len(s) THEN <<0, 0>>
  ELSE LET q == EscapedMatchAt(s, from)
       IN IF q # 0 THEN <<from, q>> ELSE EscapedFind(s, from + 1)

\* escapedVarRegex.ReplaceAllString(s, maskStart+"$1"+maskEnd) from index
\* from on: every non-overlapping match, leftmost first.
RECURSIVE MaskFrom(_, _)
MaskFrom(s, from) ==
  LET m == EscapedFind(s, from)
  IN IF m[1] = 0
     THEN SubSeq(s, from, Len(s))
     ELSE SubSeq(s, from, m[1] - 1) \o <<maskStart>>
          \o SubSeq(s, m[1] + 3, m[2] - 1) \o <<maskEnd>>
          \o MaskFrom(s, m[2] + 1)

MaskEscaped(s) == MaskFrom(s, 1)

\* strings.ReplaceAll(strings.ReplaceAll(s, maskStart, "${"), maskEnd, "}")
RECURSIVE Unmask(_)
Unmask(s) ==
  IF s = <<>> THEN <<>>
  ELSE (IF Head(s) = maskStart THEN <<"$", "{">>
        ELSE IF Head(s) = maskEnd THEN <<"}">>
        ELSE <<Head(s)>>) \o Unmask(Tail(s))

\* A Cut at the last colon instead of the first.
CutLast(content) ==
  LET C == {j \in 1..Len(content) : content[j] = ":"}
      Max == CHOOSE x \in C : \A y \in C : y <= x
  IN IF C = {}
     THEN [name |-> content, val |-> <<>>, hasColon |-> FALSE]
     ELSE [name |-> SubSeq(content, 1, Max - 1),
           val |-> SubSeq(content, Max + 1, Len(content)),
           hasColon |-> TRUE]

\* strings.Cut(content, ":")
Cut(content) ==
  LET C == {j \in 1..Len(content) : content[j] = ":"}
  IN IF C = {}
     THEN [name |-> content, val |-> <<>>, hasColon |-> FALSE]
     ELSE [name |-> SubSeq(content, 1, Min(C) - 1),
           val |-> SubSeq(content, Min(C) + 1, Len(content)),
           hasColon |-> TRUE]

\* s contains t as a substring (strings.Contains)
Contains(s, t) ==
  \E j \in 1..(Len(s) - Len(t) + 1) : SubSeq(s, j, j + Len(t) - 1) = t

----------------------------------------------------------------------------
(* Errors *)

NoErr == [kind |-> "nil", text |-> <<>>]

Quote(name) == <<"\"">> \o name \o <<"\"">>

DefaultMsg == <<"is not set or empty">>

\* fmt.Errorf("environment variable %q %s", name, msg)
RequiredErr(name, msg) ==
  [kind |-> "required",
   text |-> <<"environment variable", " ">> \o Quote(name) \o <<" ">> \o msg]

\* fmt.Errorf("failed to set env var %s: %w", name, err), err being EINVAL
SetenvErr(name) ==
  [kind |-> "setenv",
   text |-> <<"failed to set env var", " ">> \o name \o <<":", " ", "EINVAL">>]

----------------------------------------------------------------------------
(* The environment *)

\* os.LookupEnv
Exists(e, name) == name \in DOMAIN e
EnvVal(e, name) == IF name \in DOMAIN e THEN e[name] ELSE <<>>

\* os.Setenv refuses an empty name, a name holding "=" or NUL, and a value
\* holding NUL.
SetenvOk(name, value) ==
  /\ name # <<>>
  /\ \A j \in 1..Len(name) : name[j] # "=" /\ name[j] # maskStart
  /\ \A j \in 1..Len(value) : value[j] # maskStart

Setenv(e, name, value) ==
  [n \in DOMAIN e \cup {name} |-> IF n = name THEN value ELSE e[n]]

----------------------------------------------------------------------------
(* resolveVariable *)

IsOperator(c) == c = "-" \/ c = "=" \/ c = "?"

\* The operator and the default value of a non-empty operand (lines 207-219).
Operator(val) == IF IsOperator(val[1]) THEN val[1] ELSE "-"
DefaultVal(val) == IF IsOperator(val[1]) THEN Tail(val) ELSE val

\* What resolveVariable returns and does: the value, the error, the
\* environment it leaves, and whether it called os.Setenv.
Result(val, err, e, setenv) ==
  [val |-> val, err |-> err, env |-> e, setenv |-> setenv]

\* exists && envVal != "" (lines 223, 229, 240)
Bound(e, name) == Exists(e, name) /\ EnvVal(e, name) # <<>>

\* Cases 1 and 2 (lines 189-204): ${VAR} and ${VAR:}
ResolvePlain(name, e) ==
  Result(IF Exists(e, name) THEN EnvVal(e, name) ELSE <<>>, NoErr, e, FALSE)

\* case '-' (lines 222-226)
ResolveDefault(name, defaultVal, e) ==
  Result(IF Bound(e, name) THEN EnvVal(e, name) ELSE defaultVal,
         NoErr, e, FALSE)

\* An assign that writes without asking whether the name is bound.
ResolveAssignAlways(name, defaultVal, e) ==
  IF ~SetenvOk(name, defaultVal)
  THEN Result(<<>>, SetenvErr(name), e, TRUE)
  ELSE Result(IF Bound(e, name) THEN EnvVal(e, name) ELSE defaultVal,
              NoErr, Setenv(e, name, defaultVal), TRUE)

\* case '=' (lines 228-237)
ResolveAssign(name, defaultVal, e) ==
  IF Bound(e, name) THEN Result(EnvVal(e, name), NoErr, e, FALSE)
  ELSE IF ~SetenvOk(name, defaultVal)
  THEN Result(<<>>, SetenvErr(name), e, TRUE)
  ELSE Result(defaultVal, NoErr, Setenv(e, name, defaultVal), TRUE)

\* A required operator that takes a name bound to "" for set.
ResolveRequiredExists(name, defaultVal, e) ==
  IF Exists(e, name) THEN Result(EnvVal(e, name), NoErr, e, FALSE)
  ELSE Result(<<>>,
              RequiredErr(name,
                IF defaultVal = <<>> THEN DefaultMsg ELSE defaultVal),
              e, FALSE)

\* A required operator that binds the name to the message when it fails.
ResolveRequiredBinds(name, defaultVal, e) ==
  IF Bound(e, name) THEN Result(EnvVal(e, name), NoErr, e, FALSE)
  ELSE Result(<<>>,
              RequiredErr(name,
                IF defaultVal = <<>> THEN DefaultMsg ELSE defaultVal),
              Setenv(e, name, <<"m">>), FALSE)

\* case '?' (lines 239-250)
ResolveRequired(name, defaultVal, e) ==
  IF Bound(e, name) THEN Result(EnvVal(e, name), NoErr, e, FALSE)
  ELSE Result(<<>>,
              RequiredErr(name,
                IF defaultVal = <<>> THEN DefaultMsg ELSE defaultVal),
              e, FALSE)

\* resolveVariable(content) in environment e.
ResolveVariable(content, e) ==
  LET c == Cut(content)
  IN IF ~c.hasColon \/ c.val = <<>>
     THEN ResolvePlain(c.name, e)
     ELSE CASE Operator(c.val) = "-" ->
                 ResolveDefault(c.name, DefaultVal(c.val), e)
            [] Operator(c.val) = "=" ->
                 ResolveAssign(c.name, DefaultVal(c.val), e)
            [] Operator(c.val) = "?" ->
                 ResolveRequired(c.name, DefaultVal(c.val), e)

----------------------------------------------------------------------------
(* The document tree (yamlv3.Node) *)

PlainStyle == "plain"
DoubleQuotedStyle == "double-quoted"
TaggedStyle == "tagged"

IsDigits(s) ==
  /\ s # <<>>
  /\ \A j \in 1..Len(s) :
       s[j] \in {"0", "1", "2", "3", "4", "5", "6", "7", "8", "9"}

\* The type the YAML decoder infers from the text of an untagged plain
\* scalar: decimal integers, decimal fractions, booleans, null, else string.
ResolveTag(s) ==
  IF s = <<>> \/ s = <<"~">> \/ s = <<"n", "u", "l", "l">> THEN "!!null"
  ELSE IF s = <<"t", "r", "u", "e">> \/ s = <<"f", "a", "l", "s", "e">>
  THEN "!!bool"
  ELSE IF IsDigits(s) THEN "!!int"
  ELSE IF \E j \in 2..(Len(s) - 1) :
            /\ s[j] = "."
            /\ IsDigits(SubSeq(s, 1, j - 1))
            /\ IsDigits(SubSeq(s, j + 1, Len(s)))
  THEN "!!float"
  ELSE "!!str"

\* The tag the parser gives a scalar: inferred for a plain one, string for
\* a quoted one, the written tag (here always !!str) for a tagged one.
ParsedTag(value, style) ==
  IF style = PlainStyle THEN ResolveTag(value) ELSE "!!str"

ScalarNode(value, style, head, line) ==
  [Kind |-> "Scalar", Style |-> style, Tag |-> ParsedTag(value, style),
   Value |-> value, HeadComment |-> head, LineComment |-> line,
   Content |-> <<>>]

InnerNode(kind, tag, content, head) ==
  [Kind |-> kind, Style |-> PlainStyle, Tag |-> tag, Value |-> <<>>,
   HeadComment |-> head, LineComment |-> <<>>, Content |-> content]

\* The type the decoder gives a scalar after the tree is encoded again: the
\* node's tag when it has one, else the type inferred from its text.
DecodedTag(node) == IF node.Tag = "" THEN ResolveTag(node.Value) ELSE node.Tag

Untouched == <<"untouched">>

\* yaml.Unmarshal(buf.Bytes(), v): the text and type of every scalar.
Decode(tree) ==
  [n \in DOMAIN tree |->
     IF tree[n].Kind = "Scalar"
     THEN <<tree[n].Value, DecodedTag(tree[n])>>
     ELSE <<tree[n].Kind>>]

\* n is a key of a mapping: a child at an odd index of a MappingNode.
IsKey(tree, n) ==
  \E m \in DOMAIN tree :
    /\ tree[m].Kind = "Mapping"
    /\ \E j \in 1..Len(tree[m].Content) :
         j % 2 = 1 /\ tree[m].Content[j] = n

----------------------------------------------------------------------------
(* walkScalars *)

\* A walk that hands fn the scalar with the comment of its line.
FnInputLine(node) == node.Value \o node.LineComment

\* The text walkScalars hands to fn for a scalar node (line 118).
FnInput(node) == node.Value

\* A walk that steps over the keys of a mapping.
ChildrenValues(node) ==
  IF node.Kind = "Mapping"
  THEN [j \in 1..(Len(node.Content) \div 2) |-> node.Content[2 * j]]
  ELSE node.Content

\* The children walkScalars recurses into (line 127).
Children(node) == node.Content

\* An update that clears the tag of a changed string whatever its style.
ScalarUpdateAnyStyle(node, newVal) ==
  [node EXCEPT
     !.Value = newVal,
     !.Tag = IF node.Tag = "!!str" /\ node.Value # newVal
             THEN "" ELSE node.Tag]

\* Lines 114-124: the node's value becomes what fn returned, and a plain
\* scalar tagged !!str whose value changed loses its tag.
ScalarUpdate(node, newVal) ==
  [node EXCEPT
     !.Value = newVal,
     !.Tag = IF node.Style = PlainStyle /\ node.Tag = "!!str"
                /\ node.Value # newVal
             THEN "" ELSE node.Tag]

----------------------------------------------------------------------------
(* State *)

VARIABLES
  data,         \* the tree the parser makes of Unmarshal's data argument
  env,          \* the process environment
  calls,        \* Unmarshal calls started so far, all on the same data
  pc,           \* where the running call stands
  root,         \* Unmarshal: the tree being rewritten
  stack,        \* walkScalars: the nodes still to visit, next one first
  resolveErr,   \* Unmarshal: the first error fn met (line 71)
  str,          \* expandEnvInScalar: the text being expanded
  i,            \* expandEnvInScalar: the loop counter
  expErr,       \* expandEnvInScalar: its own resolveErr (line 137)
  pos,          \* ReplaceAllStringFunc: where the search for the next match starts
  replacement,  \* ReplaceAllStringFunc: the output built so far
  ret,          \* what the last finished call returned
  v,            \* the destination of the last finished call
  lookups,      \* history: the names this call handed to os.LookupEnv
  setenvs,      \* history: the os.Setenv calls of this call, <<name, value, ok>>
  visited,      \* history: the nodes whose value this call handed to fn
  passes,       \* history: per visited node, the substitution passes it took
  last,         \* history: the latest resolveVariable call
  prev,         \* history: how the previous call ended
  env0,         \* history: the environment when this call started
  conc          \* the calls that run concurrently on the environment

vars == <<data, env, calls, pc, root, stack, resolveErr, str, i, expErr, pos,
          replacement, ret, v, lookups, setenvs, visited, passes, last, prev,
          env0, conc>>

expandVars == <<str, i, expErr, pos, replacement>>

NoCall == [content |-> <<>>, env |-> <<>>, val |-> <<>>, err |-> NoErr,
           after |-> <<>>, setenv |-> FALSE, called |-> FALSE]

NoPrev == [ret |-> NoErr, v |-> Untouched, env |-> <<>>, envBefore |-> <<>>,
           setenvs |-> <<>>, ended |-> FALSE]

\* No call runs concurrently.
NoConc == [serial |-> FALSE, content |-> <<>>, at |-> <<>>, seen |-> <<>>,
           out |-> <<>>, log |-> <<>>]

\* The state a call starts in, the parser having made root from data.
Start(tree) ==
  /\ root' = tree
  /\ stack' = <<1>>
  /\ resolveErr' = NoErr
  /\ str' = <<>>
  /\ i' = 0
  /\ expErr' = NoErr
  /\ pos' = 1
  /\ replacement' = <<>>
  /\ lookups' = <<>>
  /\ setenvs' = <<>>
  /\ visited' = <<>>
  /\ passes' = <<>>
  /\ last' = NoCall
  /\ pc' = "walk"

----------------------------------------------------------------------------
(* Actions *)

\* walkScalars on a node that is no scalar: recurse into its children.
WalkInner ==
  /\ pc = "walk" /\ stack # <<>>
  /\ root[Head(stack)].Kind # "Scalar"
  /\ stack' = Children(root[Head(stack)]) \o Tail(stack)
  /\ UNCHANGED <<data, env, calls, pc, root, resolveErr, expandVars, ret, v,
                 lookups, setenvs, visited, passes, last, prev, env0, conc>>

\* fn on a scalar after an earlier failure (lines 73-75): the value is
\* handed back as it is.
WalkSkip ==
  /\ pc = "walk" /\ stack # <<>>
  /\ root[Head(stack)].Kind = "Scalar"
  /\ resolveErr # NoErr
  /\ root' = [root EXCEPT ![Head(stack)] = ScalarUpdate(@, FnInput(@))]
  /\ stack' = Children(root[Head(stack)]) \o Tail(stack)
  /\ visited' = Append(visited, Head(stack))
  /\ passes' = Append(passes, 0)
  /\ UNCHANGED <<data, env, calls, pc, resolveErr, expandVars, ret, v,
                 lookups, setenvs, last, prev, env0, conc>>

\* fn on a scalar: expandEnvInScalar starts, masking the escaped references
\* twice (lines 136 and 140).
ExpandBegin ==
  /\ pc = "walk" /\ stack # <<>>
  /\ root[Head(stack)].Kind = "Scalar"
  /\ resolveErr = NoErr
  /\ str' = MaskEscaped(MaskEscaped(FnInput(root[Head(stack)])))
  /\ i' = 0
  /\ expErr' = NoErr
  /\ pos' = 1
  /\ replacement' = <<>>
  /\ visited' = Append(visited, Head(stack))
  /\ passes' = Append(passes, 0)
  /\ pc' = "loop"
  /\ UNCHANGED <<data, env, calls, root, stack, resolveErr, ret, v, lookups,
                 setenvs, last, prev, env0, conc>>

\* A loop without the pass bound.
LoopUnbounded == EnvVarMatchString(str)

\* The loop goes on (lines 143-146): a pass of ReplaceAllStringFunc starts.
LoopContinues == i < MaxPasses /\ EnvVarMatchString(str)

PassBegin ==
  /\ pc = "loop"
  /\ LoopContinues
  /\ pos' = 1
  /\ replacement' = <<>>
  /\ passes' = [passes EXCEPT ![Len(passes)] = @ + 1]
  /\ pc' = "replace"
  /\ UNCHANGED <<data, env, calls, root, stack, resolveErr, str, i, expErr,
                 ret, v, lookups, setenvs, visited, last, prev, env0, conc>>

\* expandEnvInScalar returns out without error: fn returns it, walkScalars
\* stores it and goes on (lines 175-179, 83, 118-129).
Finish(out) ==
  /\ root' = [root EXCEPT ![Head(stack)] = ScalarUpdate(@, out)]
  /\ stack' = Children(root[Head(stack)]) \o Tail(stack)
  /\ pc' = "walk"

\* The loop ends because the bound is reached or no reference is left.
ExpandEnd ==
  /\ pc = "loop"
  /\ ~LoopContinues
  /\ Finish(Unmask(str))
  /\ UNCHANGED <<data, env, calls, resolveErr, expandVars, ret, v, lookups,
                 setenvs, visited, passes, last, prev, env0, conc>>

\* A callback that resolves every match, error or not.
ResolvesAlways(err) == TRUE

\* The callback's decision for one match (lines 149-161): after an error
\* the match is kept, else resolveVariable decides.
Resolves(err) == err = NoErr

\* One match of the pass: the callback of ReplaceAllStringFunc.
Callback ==
  /\ pc = "replace"
  /\ LET m == EnvVarFind(str, pos)
         match == SubSeq(str, m[1], m[2])
         content == SubSeq(match, 3, Len(match) - 1)
         r == ResolveVariable(content, env)
         before == SubSeq(str, pos, m[1] - 1)
     IN /\ m[1] # 0
        /\ pos' = m[2] + 1
        /\ IF Resolves(expErr)
           THEN /\ lookups' = Append(lookups, Cut(content).name)
                /\ setenvs' = IF r.setenv
                              THEN Append(setenvs,
                                     <<Cut(content).name,
                                       DefaultVal(Cut(content).val),
                                       r.err = NoErr>>)
                              ELSE setenvs
                /\ last' = [content |-> content, env |-> env, val |-> r.val,
                            err |-> r.err, after |-> r.env,
                            setenv |-> r.setenv, called |-> TRUE]
                /\ env' = r.env
                /\ expErr' = r.err
                /\ replacement' = replacement \o before
                                    \o (IF r.err = NoErr THEN r.val ELSE match)
           ELSE /\ replacement' = replacement \o before \o match
                /\ UNCHANGED <<lookups, setenvs, last, env, expErr>>
  /\ UNCHANGED <<data, calls, pc, root, stack, resolveErr, str, i, ret, v,
                 visited, passes, prev, env0, conc>>

\* No match is left: ReplaceAllStringFunc returns.
PassDone == pc = "replace" /\ EnvVarFind(str, pos)[1] = 0
Replaced == replacement \o SubSeq(str, pos, Len(str))

\* The pass met an error (lines 164-166, 78-81): expandEnvInScalar returns
\* it, fn records it and hands the scalar back as it was.
PassError ==
  /\ PassDone
  /\ expErr # NoErr
  /\ resolveErr' = expErr
  /\ root' = [root EXCEPT ![Head(stack)] = ScalarUpdate(@, FnInput(@))]
  /\ stack' = Children(root[Head(stack)]) \o Tail(stack)
  /\ replacement' = Replaced
  /\ pc' = "walk"
  /\ UNCHANGED <<data, env, calls, str, i, expErr, pos, ret, v, lookups,
                 setenvs, visited, passes, last, prev, env0, conc>>

\* The pass changed nothing (lines 168-170): the loop breaks.
PassFixpoint ==
  /\ PassDone
  /\ expErr = NoErr
  /\ str = Replaced
  /\ replacement' = Replaced
  /\ Finish(Unmask(str))
  /\ UNCHANGED <<data, env, calls, resolveErr, str, i, expErr, pos, ret, v,
                 lookups, setenvs, visited, passes, last, prev, env0, conc>>

\* The pass changed the text (line 172): the next iteration.
PassNext ==
  /\ PassDone
  /\ expErr = NoErr
  /\ str # Replaced
  /\ replacement' = Replaced
  /\ str' = Replaced
  /\ i' = i + 1
  /\ pc' = "loop"
  /\ UNCHANGED <<data, env, calls, root, stack, resolveErr, expErr, pos, ret,
                 v, lookups, setenvs, visited, passes, last, prev, env0, conc>>

\* The walk is over (lines 86-103): the error, or the tree decoded into v.
Return ==
  /\ pc = "walk" /\ stack = <<>>
  /\ ret' = resolveErr
  /\ v' = IF resolveErr # NoErr THEN Untouched ELSE Decode(root)
  /\ pc' = "done"
  /\ UNCHANGED <<data, env, calls, root, stack, resolveErr, expandVars,
                 lookups, setenvs, visited, passes, last, prev, env0, conc>>

\* The caller calls Unmarshal again on the same data, with a fresh
\* destination and the environment as the last call left it.
Again ==
  /\ pc = "done"
  /\ calls < MaxCalls
  /\ calls' = calls + 1
  /\ prev' = [ret |-> ret, v |-> v, env |-> env, envBefore |-> env0,
              setenvs |-> setenvs, ended |-> TRUE]
  /\ env0' = env
  /\ Start(data)
  /\ v' = Untouched
  /\ ret' = NoErr
  /\ UNCHANGED <<data, env, conc>>

Next ==
  \/ WalkInner
  \/ WalkSkip
  \/ ExpandBegin
  \/ PassBegin
  \/ ExpandEnd
  \/ Callback
  \/ PassError
  \/ PassFixpoint
  \/ PassNext
  \/ Return
  \/ Again

----------------------------------------------------------------------------
(* Inputs: scalar texts *)

A == <<"A">>
B == <<"B">>
X == <<"X">>
R == <<"R">>
E == <<"E">>
C == <<"C">>

\* ${body} and $${body}
Ref(body) == <<"$", "{">> \o body \o <<"}">>
Esc(body) == <<"$">> \o Ref(body)

Dash == <<":", "-">>
Colon == <<":">>
Assign == <<":", "=">>
Require == <<":", "?">>

\* References with the default operator, written out and in shorthand.
DefaultTexts ==
  { Ref(A), Ref(A \o Colon), Ref(A \o Dash), Ref(A \o Dash \o <<"d">>),
    Ref(A \o Colon \o <<"d">>), Ref(A \o Dash \o <<"a", ":", "b">>),
    Ref(A \o Colon \o <<"a", ":", "b">>), Ref(B \o Dash \o <<"d">>),
    <<"p">> \o Ref(A \o Colon \o <<"d">>) \o <<":">> \o Ref(B) }

AssignTexts ==
  { Ref(X \o Assign \o <<"d">>), Ref(X \o Assign),
    Ref(X \o Assign \o <<"d">>) \o Ref(X),
    Ref(B \o Assign \o <<"w">>) \o Ref(B \o Assign \o <<"z">>),
    Ref(X \o Assign \o <<"a">> \o Esc(E) \o <<"b">>),
    Ref(Assign \o <<"d">>) }

RequireTexts ==
  { Ref(X \o Require), Ref(X \o Require \o <<"m">>),
    Ref(X \o Require \o <<"m">>) \o Ref(B \o Assign \o <<"w">>),
    Ref(B \o Assign \o <<"w">>) \o Ref(X \o Require \o <<"m">>)
      \o Ref(A \o Assign \o <<"u">>) }

\* Escaped references: alone, beside live references, inside the operand
\* of a live reference, and with a live reference in their own operand.
EscapeTexts ==
  { Esc(E), Esc(E \o Dash \o <<"d">>), Esc(E \o Assign \o <<"d">>),
    Esc(E \o Require \o <<"m">>),
    Ref(A) \o Esc(E), Esc(E) \o Ref(B),
    Ref(A \o Dash \o <<"p">> \o Esc(E) \o <<"q">>),
    <<"$">> \o Esc(E),
    Esc(E \o Dash \o Ref(B)),
    Esc(E \o Dash \o Esc(B)) }

NestedTexts ==
  { Ref(A \o Dash \o Ref(B \o Dash \o <<"f">>)),
    Ref(A \o Colon \o Ref(B \o Colon \o <<"f">>)),
    Ref(A \o Dash \o Ref(X \o Require \o <<"m">>)),
    Ref(A \o Dash \o Ref(X \o Assign \o <<"d">>)),
    Ref(A \o Dash \o Ref(B \o Require \o <<"m">>)),
    Ref(A \o Dash \o Ref(B \o Assign \o <<"d">>)),
    Ref(R \o Dash \o Ref(R)),
    Ref(R \o Colon \o Ref(R)),
    Ref(R) }

TypedTexts ==
  { Ref(A \o Colon \o <<"4", "2">>), Ref(A \o Colon \o <<"4", ".", "5">>),
    Ref(A \o Colon \o <<"t", "r", "u", "e">>), <<"4", "2">>, <<"a", "b">> }

\* A chain of nested references ${Va<sep>${Vb<sep>...f}}, depth deep.
Letter(j) ==
  <<"a", "b", "c", "d", "e", "f", "g", "h", "i", "j", "k", "l", "m", "n",
    "o", "p">>[j]
ChainName(j) == <<"V", Letter(j)>>
ChainValue(j) == <<"v", Letter(j)>>

RECURSIVE Chain(_, _, _)
Chain(j, depth, sep) ==
  Ref(ChainName(j) \o sep
        \o (IF j < depth THEN Chain(j + 1, depth, sep) ELSE <<"f">>))

MaxDepth == MaxPasses + ExtraDepth

----------------------------------------------------------------------------
(* Inputs: documents *)

DocNode(content) == InnerNode("Document", "", content, <<>>)
MapNode(content, head) == InnerNode("Mapping", "!!map", content, head)
SeqNode(content) == InnerNode("Sequence", "!!seq", content, <<>>)
Plain(value) == ScalarNode(value, PlainStyle, <<>>, <<>>)
Quoted(value) == ScalarNode(value, DoubleQuotedStyle, <<>>, <<>>)
Tagged(value) == ScalarNode(value, TaggedStyle, <<>>, <<>>)

\* Comments that hold references to C, which no scalar and no value names.
HeadC == <<"#", " ">> \o Ref(C \o Require \o <<"m">>)
LineC == <<"#", " ">> \o Ref(C \o Assign \o <<"d">>)
Commented(value) == ScalarNode(value, PlainStyle, HeadC, LineC)

\* k: value
OneDoc(key, value) == <<DocNode(<<2>>), MapNode(<<3, 4>>, <<>>), key, value>>
\* k: v1, l: v2 with comments on the mapping and on the values
TwoDoc(k1, v1, k2, v2) ==
  <<DocNode(<<2>>), MapNode(<<3, 4, 5, 6>>, HeadC), k1, v1, k2, v2>>
\* k: [i1, i2]
SeqDoc(key, i1, i2) ==
  <<DocNode(<<2>>), MapNode(<<3, 4>>, <<>>), key, SeqNode(<<5, 6>>), i1, i2>>

KeyK == Plain(<<"k">>)
KeyL == Plain(<<"l">>)

DefaultDocs ==
  {OneDoc(KeyK, Plain(t)) : t \in DefaultTexts \cup TypedTexts}
    \cup {OneDoc(KeyK, Quoted(t)) : t \in TypedTexts}
    \cup {OneDoc(KeyK, Tagged(Ref(A \o Colon \o <<"4", "2">>)))}

Pairs ==
  { <<Ref(X \o Require \o <<"m">>), Ref(B \o Assign \o <<"w">>)>>,
    <<Ref(B \o Assign \o <<"w">>), Ref(X \o Require \o <<"m">>)>>,
    <<Ref(X \o Assign \o <<"d">>), Ref(X \o Require \o <<"m">>)>>,
    <<Ref(X), Ref(X \o Assign \o <<"d">>)>>,
    <<Ref(A \o Colon \o <<"4", "2">>), Ref(B \o Dash \o <<"d">>)>> }

PairDocs ==
  {TwoDoc(KeyK, Commented(p[1]), KeyL, Commented(p[2])) : p \in Pairs}

KeyDocs ==
  { OneDoc(Plain(Ref(X \o Assign \o <<"d">>)), Plain(Ref(X))),
    OneDoc(Plain(Ref(X \o Require \o <<"m">>)), Plain(<<"a">>)),
    OneDoc(Plain(Ref(A \o Dash \o <<"k">>)), Commented(Ref(B))) }

SeqDocs ==
  { SeqDoc(KeyK, Plain(Ref(A \o Colon \o <<"4", "2">>)),
           Plain(Ref(X \o Require))),
    SeqDoc(KeyK, Plain(Ref(X \o Assign \o <<"d">>)), Quoted(Ref(X))) }

EffectDocs ==
  {OneDoc(KeyK, Plain(t)) : t \in AssignTexts \cup RequireTexts}
    \cup PairDocs \cup KeyDocs \cup SeqDocs

EscapeDocs == {OneDoc(KeyK, Plain(t)) : t \in EscapeTexts}

NestedDocs == {OneDoc(KeyK, Quoted(t)) : t \in NestedTexts}

RecursiveDocs ==
  NestedDocs
    \cup { OneDoc(KeyK, Plain(Ref(A))),
           OneDoc(KeyK, Plain(Ref(A \o Dash \o <<"d">>) \o Ref(B))),
           OneDoc(Plain(Ref(A \o Dash \o <<"k">>)), Commented(Ref(B))) }

ChainDoc(depth, sep) == OneDoc(KeyK, Quoted(Chain(1, depth, sep)))

----------------------------------------------------------------------------
(* Inputs: environments *)

Unset == <<"unset">>
NoEnv == [n \in {} |-> <<>>]
Bind(name, value) == IF value = Unset THEN NoEnv ELSE name :> value

\* Values without "$", "{" or "}".
DefaultEnvs ==
  {Bind(A, a) @@ Bind(B, b) :
     a \in {Unset, <<>>, <<"x">>, <<"7">>}, b \in {Unset, <<>>, <<"s">>}}

EffectEnvs ==
  {Bind(A, a) @@ Bind(B, b) @@ Bind(X, x) :
     a \in {Unset, <<"x">>}, b \in {Unset, <<"s">>},
     x \in {Unset, <<>>, <<"o", "k">>}}

EscapeEnvs ==
  {Bind(A, a) @@ Bind(B, b) @@ Bind(E, e) :
     a \in {Unset, <<"x">>}, b \in {Unset, <<"s">>}, e \in {Unset, <<"e">>}}

NestedEnvs ==
  {Bind(A, a) @@ Bind(B, b) @@ Bind(X, x) :
     a \in {Unset, <<>>, <<"x">>},
     b \in {Unset, <<>>, <<"s">>, <<"-", "y">>, <<"?", "y">>},
     x \in {Unset, <<"o", "k">>}}

\* Values that hold references: to themselves, to each other, escaped.
RecursiveEnvs ==
  { R :> Ref(R),
    R :> (<<"x">> \o Ref(R)),
    (A :> Ref(B)) @@ (B :> Ref(A)),
    (A :> Esc(E)) @@ (E :> <<"e">>) }

\* For a chain: level b bound to value, the innermost level bound as well
\* when inner, the first level bound to the empty string when empty.
ChainEnv(depth, b, value, inner, empty) ==
  (IF b = 0 THEN NoEnv ELSE ChainName(b) :> value)
    @@ (IF inner THEN ChainName(depth) :> ChainValue(depth) ELSE NoEnv)
    @@ (IF empty THEN ChainName(1) :> <<>> ELSE NoEnv)

ChainLevels(depth) == {0, 1, 2, depth - 1, depth} \cap 0..depth

ChainScenarios ==
  UNION {
    {<<ChainDoc(d, sep), ChainEnv(d, b, ChainValue(b), inner, empty)>> :
       sep \in {Dash, Colon}, b \in ChainLevels(d),
       inner \in BOOLEAN, empty \in BOOLEAN}
    \cup
    {<<ChainDoc(d, Colon), ChainEnv(d, b, <<"-", "y">>, FALSE, FALSE)>> :
       b \in ChainLevels(d) \ {0}} :
    d \in 1..MaxDepth }

----------
(* Specification *)

Scenarios ==
  (DefaultDocs \X DefaultEnvs) \cup (EffectDocs \X EffectEnvs)
    \cup (EscapeDocs \X EscapeEnvs) \cup (NestedDocs \X NestedEnvs)
    \cup (RecursiveDocs \X RecursiveEnvs) \cup ChainScenarios

Init ==
  \E sc \in Scenarios :
    /\ data = sc[1]
    /\ env = sc[2]
    /\ env0 = sc[2]
    /\ root = sc[1]
    /\ calls = 1
    /\ pc = "walk"
    /\ stack = <<1>>
    /\ resolveErr = NoErr
    /\ str = <<>>
    /\ i = 0
    /\ expErr = NoErr
    /\ pos = 1
    /\ replacement = <<>>
    /\ ret = NoErr
    /\ v = Untouched
    /\ lookups = <<>>
    /\ setenvs = <<>>
    /\ visited = <<>>
    /\ passes = <<>>
    /\ last = NoCall
    /\ prev = NoPrev
    /\ conc = NoConc

Spec == Init /\ [][Next]_vars

----------------------------------------------------------------------------
(* Concurrent calls.  Two goroutines each call Unmarshal on a scalar that
   holds one reference.  The process environment is the only state the
   calls share, and resolveVariable reaches it in two places: os.LookupEnv
   (line 186) and os.Setenv (line 233), each atomic in itself, with no lock
   held from the one to the other.  Every other step of a call works on the
   call's own data, so a call is modelled by these two steps and its
   return. *)

Procs == {1, 2}

\* A lookup that does not see the environment.
LookupEnvUnset(e, name) == [exists |-> FALSE, val |-> <<>>]

\* envVal, exists := os.LookupEnv(name) (line 186)
LookupEnv(e, name) == [exists |-> Exists(e, name), val |-> EnvVal(e, name)]

\* What a call knows of the environment once its lookup has returned.
Seen(name, found) == IF found.exists THEN name :> found.val ELSE NoEnv

\* What resolveVariable goes on to do (lines 189-250) with what it found.
Decides(content, found) ==
  ResolveVariable(content, Seen(Cut(content).name, found))

\* The caller serializes the calls: a call starts only when no other call
\* is under way.
MayStart(p) ==
  conc.serial => \A q \in Procs \ {p} : conc.at[q] \in {"call", "done"}

seqVars == <<data, calls, pc, root, stack, resolveErr, str, i, expErr, pos,
             replacement, ret, v, lookups, setenvs, visited, passes, last,
             prev, env0>>

\* Lines 185-186: the call of p cuts the content and looks the name up.
CLookup(p) ==
  /\ conc.at[p] = "call"
  /\ MayStart(p)
  /\ LET content == conc.content[p]
         name == Cut(content).name
         found == LookupEnv(env, name)
     IN conc' = [conc EXCEPT
                   !.seen[p] = found,
                   !.at[p] = IF Decides(content, found).setenv
                             THEN "write" ELSE "return",
                   !.log = Append(@, [proc |-> p, op |-> "LookupEnv",
                                      name |-> name, exists |-> found.exists,
                                      val |-> found.val])]
  /\ UNCHANGED <<env, seqVars>>

\* Line 233: the call of p, having found the name unset or empty, writes.
CSetenv(p) ==
  /\ conc.at[p] = "write"
  /\ LET content == conc.content[p]
         name == Cut(content).name
         defaultVal == DefaultVal(Cut(content).val)
     IN /\ env' = IF SetenvOk(name, defaultVal)
                  THEN Setenv(env, name, defaultVal) ELSE env
        /\ conc' = [conc EXCEPT
                      !.at[p] = "return",
                      !.log = Append(@, [proc |-> p, op |-> "Setenv",
                                         name |-> name, exists |-> TRUE,
                                         val |-> defaultVal])]
  /\ UNCHANGED seqVars

\* resolveVariable returns, and with it the call of p.
CReturn(p) ==
  /\ conc.at[p] = "return"
  /\ LET r == Decides(conc.content[p], conc.seen[p])
     IN conc' = [conc EXCEPT !.at[p] = "done",
                             !.out[p] = [val |-> r.val, err |-> r.err]]
  /\ UNCHANGED <<env, seqVars>>

ConcNext == \E p \in Procs : CLookup(p) \/ CSetenv(p) \/ CReturn(p)

ConcContents ==
  { X \o Assign \o <<"a">>, X \o Assign \o <<"b">>, X,
    X \o Dash \o <<"c">>, X \o Require \o <<"m">> }

ConcEnvs == {NoEnv, X :> <<>>, X :> <<"v">>}

ConcInit ==
  /\ env \in ConcEnvs
  /\ env0 = env
  /\ \E serial \in BOOLEAN, content \in [Procs -> ConcContents] :
       conc = [serial |-> serial, content |-> content,
               at |-> [p \in Procs |-> "call"],
               seen |-> [p \in Procs |-> [exists |-> FALSE, val |-> <<>>]],
               out |-> [p \in Procs |-> [val |-> <<>>, err |-> NoErr]],
               log |-> <<>>]
  /\ data = <<>> /\ root = <<>> /\ calls = 0 /\ pc = "done"
  /\ stack = <<>> /\ resolveErr = NoErr /\ str = <<>> /\ i = 0
  /\ expErr = NoErr /\ pos = 1 /\ replacement = <<>> /\ ret = NoErr
  /\ v = Untouched /\ lookups = <<>> /\ setenvs = <<>> /\ visited = <<>>
  /\ passes = <<>> /\ last = NoCall /\ prev = NoPrev

SpecConc == ConcInit /\ [][ConcNext]_vars

----------------------------------------------------------------------------
(* Claims *)

\* The names and operands the claims about resolveVariable range over.
ClaimNames == {A, B, X, R, E, C, <<>>}
ClaimOperands ==
  { <<>>, <<"d">>, <<"m">>, <<"w">>, <<"z">>, <<"u">>, <<"k">>, <<"f">>,
    <<"a", ":", "b">>, <<"4", "2">>, <<"4", ".", "5">>,
    <<"t", "r", "u", "e">>, <<"-", "y">>, <<"?", "y">>, <<"=", "y">> }

DefaultOperands ==
  { <<>>, <<"d">>, <<"a", ":", "b">>, <<"4", "2">>, <<"-", "y">>,
    <<"?", "y">>, <<"=", "y">> }

StartsWithOperator(d) == d # <<>> /\ IsOperator(d[1])

Unbound(e, n) == n \notin DOMAIN e \/ e[n] = <<>>

EndsWith(s, t) ==
  Len(s) >= Len(t) /\ SubSeq(s, Len(s) - Len(t) + 1, Len(s)) = t

\* What ${n:-d} is to resolve to in environment e.
DefaultExpected(e, n, d) == IF Unbound(e, n) THEN d ELSE e[n]

\* C1: ${NAME:-d} resolves to d when NAME is unset or empty and to NAME's
\* value otherwise; the shorthand ${NAME:d}, d not starting with "-", "="
\* or "?", resolves to the same; the name ends at the first colon; neither
\* form writes to the environment or fails.  Stated of resolveVariable in
\* every environment a run reaches, and of every call a run makes.
C1_DefaultOperator ==
  /\ (pc = "replace" \/ visited = <<>>) =>
     \A n \in ClaimNames, d \in DefaultOperands :
       LET long == ResolveVariable(n \o Dash \o d, env)
           short == ResolveVariable(n \o Colon \o d, env)
       IN /\ long.val = DefaultExpected(env, n, d)
          /\ long.err = NoErr
          /\ long.env = env
          /\ ~long.setenv
          /\ ~StartsWithOperator(d) => short = long
  /\ last.called =>
       \A n \in ClaimNames, d \in ClaimOperands :
         (\/ last.content = n \o Dash \o d
          \/ last.content = n \o Colon \o d /\ ~StartsWithOperator(d))
         => /\ last.val = DefaultExpected(last.env, n, d)
            /\ last.err = NoErr
            /\ last.after = last.env
            /\ ~last.setenv

\* C1 witness: ${A:a:b} was resolved with A unset and gave a:b, which is the
\* value the call left in the scalar.
C1_Witness ==
  /\ pc = "done" /\ calls = 1 /\ ret = NoErr
  /\ last.called
  /\ last.content = A \o Colon \o <<"a", ":", "b">>
  /\ A \notin DOMAIN last.env
  /\ last.val = <<"a", ":", "b">>
  /\ root[4].Value = <<"a", ":", "b">>

AssignDoc(d) == OneDoc(KeyK, Plain(Ref(X \o Assign \o d)))

Range(f) == {f[j] : j \in DOMAIN f}

Scalars(tree) == {n \in DOMAIN tree : tree[n].Kind = "Scalar"}

\* The index of the "}" that closes a reference opened before k, depth
\* braces being open at k; 0 when there is none.
RECURSIVE ClosingBrace(_, _, _)
ClosingBrace(t, k, depth) ==
  IF k > Len(t) THEN 0
  ELSE IF t[k] = "{" THEN ClosingBrace(t, k + 1, depth + 1)
  ELSE IF t[k] = "}"
  THEN (IF depth = 1 THEN k ELSE ClosingBrace(t, k + 1, depth - 1))
  ELSE ClosingBrace(t, k + 1, depth)

\* A braced reference preceded by a doubled sigil starts at p: $${...}
EscapedAt(t, p) ==
  /\ p + 3 <= Len(t)
  /\ t[p] = "$" /\ t[p + 1] = "$" /\ t[p + 2] = "{"
  /\ ClosingBrace(t, p + 3, 1) # 0

\* The reference ${...} that the doubled sigil at p escapes.
EscapedRef(t, p) == SubSeq(t, p + 1, ClosingBrace(t, p + 3, 1))

\* The name of the reference ${name...}
RECURSIVE NameEnd(_, _)
NameEnd(ref, k) ==
  IF ref[k] \in {":", "}", "$"} THEN k ELSE NameEnd(ref, k + 1)
RefName(ref) == SubSeq(ref, 3, NameEnd(ref, 3) - 1)

\* The braces open at index p of t.
RECURSIVE OpenAt(_, _)
OpenAt(t, p) ==
  IF p <= 1 THEN 0
  ELSE OpenAt(t, p - 1)
         + (IF t[p - 1] = "{" THEN 1 ELSE IF t[p - 1] = "}" THEN 0 - 1 ELSE 0)

\* C4 as claimed: a reference escaped in a scalar, whatever its operator and
\* operand and wherever it stands, is never expanded: the variable it names
\* is never looked up, and the scalar's output holds the literal ${...}
\* (asked of the escaped references that stand outside every other
\* reference and hold no reference themselves, and of the one in the used
\* default of ${A:-p$${E}q}).
C4_Original ==
  pc = "done" =>
    \A n \in Scalars(data) :
      LET t == data[n].Value
      IN /\ \A p \in 1..Len(t) :
              EscapedAt(t, p) =>
                LET ref == EscapedRef(t, p)
                IN /\ RefName(ref) \notin Range(lookups)
                   /\ (/\ ret = NoErr
                       /\ OpenAt(t, p) = 0
                       /\ \A j \in 3..Len(ref) : ref[j] # "$")
                      => Contains(root[n].Value, ref)
         /\ (/\ t = Ref(A \o Dash \o <<"p">> \o Esc(E) \o <<"q">>)
             /\ Unbound(env0, A))
            => root[n].Value = <<"p">> \o Ref(E) \o <<"q">>

\* The value of the outermost of the chain's variables that e binds to a
\* non-empty value, and the innermost default text f when there is none.
ChainExpected(depth, e) ==
  LET S == {j \in 1..depth : ~Unbound(e, ChainName(j))}
  IN IF S = {} THEN <<"f">> ELSE e[ChainName(Min(S))]

\* The values of e hold no sigil and no brace.
PlainValues(e) ==
  \A n \in DOMAIN e : \A j \in 1..Len(e[n]) : e[n][j] \notin {"$", "{", "}"}

\* C5 as claimed: ${A:-${B:-f}} yields f with neither bound, B's value when
\* only B is bound, A's value when A is bound; and default references nested
\* up to 10 deep, written with ":-" or in shorthand, over values without
\* sigil or brace yield the value of the outermost variable bound non-empty,
\* else the innermost default.
C5_Original ==
  (pc = "done" /\ PlainValues(env0)) =>
    /\ \A sep \in {Dash, Colon} :
         data = OneDoc(KeyK, Quoted(Ref(A \o sep \o Ref(B \o sep \o <<"f">>))))
         => /\ ret = NoErr
            /\ root[4].Value = IF ~Unbound(env0, A) THEN env0[A]
                               ELSE IF ~Unbound(env0, B) THEN env0[B]
                               ELSE <<"f">>
    /\ \A d \in 1..MaxPasses, sep \in {Dash, Colon} :
         data = ChainDoc(d, sep)
         => /\ ret = NoErr
            /\ root[4].Value = ChainExpected(d, env0)

\* C6: the expansion of one scalar takes at most 10 substitution passes,
\* whatever the text and the environment; when the 10th pass leaves a
\* reference pattern the scalar keeps the unresolved text and no error is
\* raised.  ${R:-${R}} with R unset ends after 2 passes, empty.
C6_BoundedPasses ==
  /\ i <= MaxPasses
  /\ pc = "replace" => i < MaxPasses
  /\ \A k \in 1..Len(passes) : passes[k] <= MaxPasses
  /\ (/\ pc \in {"walk", "done"}
      /\ visited # <<>>
      /\ passes[Len(passes)] = MaxPasses
      /\ EnvVarMatchString(str))
     => /\ resolveErr = NoErr
        /\ root[visited[Len(visited)]].Value = Unmask(str)
        /\ EnvVarMatchString(root[visited[Len(visited)]].Value)
        /\ pc = "done" => ret = NoErr /\ v # Untouched
  /\ (/\ pc = "done"
      /\ data[4].Value \in {Ref(R \o Dash \o Ref(R)), Ref(R \o Colon \o Ref(R))}
      /\ R \notin DOMAIN env0)
     => /\ ret = NoErr
        /\ passes[Len(passes)] = 2
        /\ root[4].Value = <<>>

\* C6 witness: with R bound to x${R} the scalar ${R} took 10 passes, a
\* reference is left in it, and the call ended without error.
C6_Witness ==
  /\ pc = "done" /\ ret = NoErr
  /\ data[4].Value = Ref(R)
  /\ env0 = R :> (<<"x">> \o Ref(R))
  /\ passes[Len(passes)] = MaxPasses
  /\ EnvVarMatchString(root[4].Value)
  /\ Len(root[4].Value) = MaxPasses + Len(Ref(R))

Failed == expErr # NoErr \/ resolveErr # NoErr

StrictlyIncreasing(q) == \A j \in 1..(Len(q) - 1) : q[j] < q[j + 1]

\* C7: scalars are visited in document order; once a resolution has failed,
\* the same call resolves no further reference (no lookup, no os.Setenv
\* call, no change of the environment or of the tree) and keeps its first
\* error; it returns that error without decoding, with the environment
\* writes and scalar rewrites made before the failure left in place.  In
\* k: ${X:?m}, l: ${B:=w} with X unset the second scalar is handed to fn but
\* B is neither looked up nor written.
C7_FailFast ==
  /\ [](StrictlyIncreasing(visited))
  /\ []((pc = "done" /\ ret # NoErr)
         => /\ v = Untouched
            /\ last.called /\ ret = last.err
            /\ \A k \in 1..Len(setenvs) :
                 setenvs[k][3] => env[setenvs[k][1]] = setenvs[k][2])
  /\ []((/\ pc = "done"
          /\ Len(data) = 6
          /\ data[4].Value = Ref(X \o Require \o <<"m">>)
          /\ data[6].Value = Ref(B \o Assign \o <<"w">>)
          /\ Unbound(env0, X))
         => /\ ret = RequiredErr(X, <<"m">>)
            /\ visited = <<3, 4, 5, 6>>
            /\ lookups = <<X>>
            /\ env = env0
            /\ root[6].Value = data[6].Value)
  /\ [][(Failed /\ calls' = calls)
         => /\ lookups' = lookups
            /\ setenvs' = setenvs
            /\ last' = last
            /\ env' = env
            /\ root' = root
            /\ resolveErr # NoErr => resolveErr' = resolveErr
            /\ pc' = "done" => ret' = last.err /\ v' = Untouched]_vars

\* C7 witness: ${B:=w}${X:?m}${A:=u} failed at X after B was written: the
\* write to B is kept, A was neither looked up nor written.
C7_Witness ==
  /\ pc = "done" /\ calls = 1
  /\ data[4].Value = Ref(B \o Assign \o <<"w">>) \o Ref(X \o Require \o <<"m">>)
                       \o Ref(A \o Assign \o <<"u">>)
  /\ B \notin DOMAIN env0 /\ A \notin DOMAIN env0
  /\ ret = RequiredErr(X, <<"m">>)
  /\ env[B] = <<"w">>
  /\ A \notin DOMAIN env
  /\ lookups = <<B, X>>

\* C8: the walk changes only the value and the tag of Scalar nodes: every
\* node keeps its comments, its kind and its children, even when a comment
\* holds ${...}; a ${C:?m} in a comment raises no error and a ${C:=d} in a
\* comment writes nothing: C is never looked up and stays unset.
C8_CommentsUntouched ==
  /\ DOMAIN root = DOMAIN data
  /\ \A n \in DOMAIN data :
       /\ root[n].HeadComment = data[n].HeadComment
       /\ root[n].LineComment = data[n].LineComment
       /\ root[n].Kind = data[n].Kind
       /\ root[n].Content = data[n].Content
       /\ root[n].Style = data[n].Style
       /\ data[n].Kind # "Scalar" => root[n] = data[n]
  /\ C \notin Range(lookups)
  /\ C \notin DOMAIN env
  /\ \A k \in 1..Len(setenvs) : setenvs[k][1] # C
  /\ ~Contains(resolveErr.text, Quote(C))
  /\ ~Contains(ret.text, Quote(C))

\* C8 witness: a call ended without error on a document whose mapping
\* carries # ${C:?m} and whose scalar, carrying # ${C:=d}, was rewritten.
C8_Witness ==
  /\ pc = "done" /\ ret = NoErr
  /\ root[2].HeadComment = HeadC
  /\ \E n \in Scalars(data) :
       /\ root[n].LineComment = LineC
       /\ root[n].HeadComment = HeadC
       /\ root[n].Value # data[n].Value

NoEscape(t) == \A p \in 1..Len(t) : EscapedMatchAt(t, p) = 0

\* C9 as amended: mapping keys are Scalar nodes and the walk hands them to
\* fn like every other scalar: every scalar of the document, key or not, is
\* visited once, in document order; a reference in key position is resolved,
\* with its assign write or its required-variable error; a key's text stays
\* as it was when it holds no reference.
C9_KeysExpanded ==
  /\ pc = "done" =>
       /\ Range(visited) = Scalars(data)
       /\ Len(visited) = Cardinality(Scalars(data))
       /\ StrictlyIncreasing(visited)
  /\ (pc = "done" /\ ret = NoErr) =>
       \A n \in Scalars(data) :
         IsKey(data, n) =>
           /\ (~EnvVarMatchString(data[n].Value) /\ NoEscape(data[n].Value))
              => root[n].Value = data[n].Value
           /\ (data[n].Value = Ref(A \o Dash \o <<"k">>) /\ PlainValues(env0))
              => root[n].Value = DefaultExpected(env0, A, <<"k">>)
           /\ (data[n].Value = Ref(X \o Assign \o <<"d">>) /\ Unbound(env0, X))
              => /\ root[n].Value = <<"d">>
                 /\ setenvs[1] = <<X, <<"d">>, TRUE>>
                 /\ env[X] = <<"d">>
  /\ (/\ pc = "done"
      /\ data[3].Value = Ref(X \o Require \o <<"m">>)
      /\ Unbound(env0, X))
     => ret = RequiredErr(X, <<"m">>)

\* C9 witness: the key ${X:=d} of ${X:=d}: ${X} became d and bound X.
C9_Witness ==
  /\ pc = "done" /\ ret = NoErr /\ calls = 1
  /\ IsKey(data, 3)
  /\ data[3].Value = Ref(X \o Assign \o <<"d">>)
  /\ X \notin DOMAIN env0
  /\ root[3].Value = <<"d">>
  /\ env[X] = <<"d">>
  /\ root[4].Value = <<"d">>

\* C9 as claimed: the text of every mapping key is the same after the walk
\* as before; a reference in a key triggers no assign write.
C9_Original ==
  \A n \in Scalars(data) :
    IsKey(data, n) =>
      /\ root[n].Value = data[n].Value
      /\ (pc = "done" /\ data[n].Value = Ref(X \o Assign \o <<"d">>)
            /\ Len(data) = 4 /\ data[4].Value = Ref(X))
         => setenvs = <<>>

TypedDefaults ==
  { <<<<"4", "2">>, "!!int">>, <<<<"4", ".", "5">>, "!!float">>,
    <<<<"t", "r", "u", "e">>, "!!bool">> }

\* C10: a scalar's tag is cleared exactly when the scalar was plain, tagged
\* !!str, and its value was changed; so a plain ${A:42} with A unset or
\* empty decodes as the integer 42 (4.5 as a float, true as a boolean), a
\* quoted one decodes as a string, "42" when A is unset or empty, and a
\* scalar whose value is unchanged keeps its tag and its type.
C10_TypeReinference ==
  /\ \A n \in Scalars(data) :
       root[n].Tag = IF /\ data[n].Style = PlainStyle
                        /\ data[n].Tag = "!!str"
                        /\ root[n].Value # data[n].Value
                     THEN "" ELSE data[n].Tag
  /\ (pc = "done" /\ ret = NoErr) =>
       /\ \A td \in TypedDefaults :
            LET t == Ref(A \o Colon \o td[1])
            IN /\ (data[4] = Plain(t) /\ Unbound(env0, A)) => v[4] = td
               /\ data[4] \in {Quoted(t), Tagged(t)}
                  => /\ v[4][2] = "!!str"
                     /\ Unbound(env0, A) => v[4][1] = td[1]
       /\ \A n \in Scalars(data) :
            root[n].Value = data[n].Value
            => /\ root[n].Tag = data[n].Tag
               /\ v[n] = <<data[n].Value, data[n].Tag>>

\* C10 witness: the plain scalar ${A:42} with A unset decoded as the
\* integer 42, its tag cleared.
C10_Witness ==
  /\ pc = "done" /\ ret = NoErr
  /\ data[4] = Plain(Ref(A \o Colon \o <<"4", "2">>))
  /\ A \notin DOMAIN env0
  /\ root[4].Tag = ""
  /\ v[4] = <<<<"4", "2">>, "!!int">>

OuterExpected(e, val) == IF Unbound(e, A) THEN val ELSE e[A]

\* C12: a reference nested in an operand is resolved before the reference
\* that encloses it and whether or not that one uses its operand: every
\* resolved reference is brace-free, so ${A:-${B:?m}} fails on B unset or
\* empty whatever A is, A never being looked up, and ${A:-${B:=d}} binds B
\* to d whatever A is, B being looked up and written before A is looked up;
\* the scalar then gets A's value when A is bound non-empty.
C12_EagerInnermost ==
  /\ last.called => \A j \in 1..Len(last.content) : ~IsBrace(last.content[j])
  /\ (pc = "done" /\ data[4].Value = Ref(A \o Dash \o Ref(B \o Require \o <<"m">>)))
     => IF Unbound(env0, B)
        THEN /\ ret = RequiredErr(B, <<"m">>)
             /\ v = Untouched
             /\ lookups = <<B>>
        ELSE PlainValues(env0)
             => /\ ret = NoErr
                /\ lookups = <<B, A>>
                /\ passes[Len(passes)] = 2
                /\ root[4].Value = OuterExpected(env0, env0[B])
  /\ (pc = "done" /\ data[4].Value = Ref(A \o Dash \o Ref(B \o Assign \o <<"d">>)))
     => IF Unbound(env0, B)
        THEN /\ ret = NoErr
             /\ Len(lookups) >= 2 /\ lookups[1] = B /\ lookups[2] = A
             /\ setenvs = <<<<B, <<"d">>, TRUE>>>>
             /\ B \in DOMAIN env /\ env[B] = <<"d">>
             /\ PlainValues(env0)
                => /\ lookups = <<B, A>>
                   /\ root[4].Value = OuterExpected(env0, <<"d">>)
        ELSE PlainValues(env0)
             => /\ ret = NoErr
                /\ setenvs = <<>>
                /\ env = env0
                /\ root[4].Value = OuterExpected(env0, env0[B])

\* C12 witness: ${A:-${B:=d}} with A bound to x and B unset ended with the
\* scalar x and B bound to d.
C12_Witness ==
  /\ pc = "done" /\ ret = NoErr /\ calls = 1
  /\ data[4].Value = Ref(A \o Dash \o Ref(B \o Assign \o <<"d">>))
  /\ A \in DOMAIN env0 /\ env0[A] = <<"x">>
  /\ B \notin DOMAIN env0
  /\ root[4].Value = <<"x">>
  /\ env[B] = <<"d">>

\* The calls of the two goroutines are over.
AllDone == \A p \in Procs : conc.at[p] = "done"

\* The os.Setenv calls among the first k events.
Writes(k, name) ==
  {j \in 1..k : conc.log[j].op = "Setenv" /\ conc.log[j].name = name}

\* The binding of name after the first k events.
BindingAfter(k, name) ==
  IF Writes(k, name) = {}
  THEN [exists |-> name \in DOMAIN env0,
        val |-> IF name \in DOMAIN env0 THEN env0[name] ELSE <<>>]
  ELSE [exists |-> TRUE,
        val |-> conc.log[CHOOSE j \in Writes(k, name) :
                           \A h \in Writes(k, name) : h <= j].val]

\* One call resolves ${X:=a}, the other ${X:=b}, from X unset.
AssignRace ==
  /\ X \notin DOMAIN env0
  /\ {conc.content[p] : p \in Procs}
       = {X \o Assign \o <<"a">>, X \o Assign \o <<"b">>}

\* C13: the calls share the environment without a lock: every lookup finds
\* the latest write to its name completed before it, by whichever call, and
\* a call's lookup and its write are two steps.  With ${X:=a} and ${X:=b}
\* from X unset, serialized calls return the same value, X's binding, X
\* being written once; calls that are not serialized return values among a
\* and b, and differ only when both found X unset and both wrote.
C13_SharedEnvironment ==
  /\ \A k \in 1..Len(conc.log) :
       LET ev == conc.log[k]
       IN ev.op = "LookupEnv"
          => [exists |-> ev.exists, val |-> ev.val]
               = BindingAfter(k - 1, ev.name)
  /\ \A p \in Procs :
       conc.at[p] = "write"
       => /\ \E k \in 1..Len(conc.log) :
               conc.log[k].proc = p /\ conc.log[k].op = "LookupEnv"
          /\ \A k \in 1..Len(conc.log) :
               conc.log[k].proc = p => conc.log[k].op # "Setenv"
  /\ (AllDone /\ AssignRace) =>
       /\ X \in DOMAIN env /\ env[X] \in {<<"a">>, <<"b">>}
       /\ \A p \in Procs :
            conc.out[p].err = NoErr /\ conc.out[p].val \in {<<"a">>, <<"b">>}
       /\ conc.serial
          => /\ \A p \in Procs : conc.out[p].val = env[X]
             /\ Cardinality(Writes(Len(conc.log), X)) = 1
       /\ (\E p \in Procs : conc.out[p].val # env[X])
          => /\ \A p \in Procs : ~conc.seen[p].exists
             /\ Cardinality(Writes(Len(conc.log), X)) = 2

\* C13 witness: both calls found X unset, both wrote, and one call returned
\* a value that is not X's final binding.
C13_Witness ==
  /\ AllDone /\ AssignRace
  /\ ~conc.serial
  /\ \A p \in Procs : ~conc.seen[p].exists
  /\ Cardinality(Writes(Len(conc.log), X)) = 2
  /\ \E p \in Procs : conc.out[p].val # env[X]

\* The text holds none of the bytes that mask an escaped reference.
NoMask(t) == \A j \in 1..Len(t) : t[j] \notin {maskStart, maskEnd}

\* The scalar ${X:=a$${E}b} and the literal its default stands for.
MaskedDefault == Ref(X \o Assign \o <<"a">> \o Esc(E) \o <<"b">>)
LiteralDefault == <<"a">> \o Ref(E) \o <<"b">>

\* C14 as claimed: whenever an assign to a name takes its default, the write succeeds
\* and the value bound to the name is the text that replaces the reference
\* in the scalar's output; the environment never holds a masking byte; and
\* ${X:=a$${E}b} with X unset or empty ends without error, X bound to the
\* literal a${E}b, which is also the scalar's value.
C14_Original ==
  /\ \A n \in DOMAIN env : NoMask(env[n])
  /\ (last.called /\ last.setenv /\ Cut(last.content).name # <<>>)
     => /\ last.err = NoErr
        /\ Cut(last.content).name \in DOMAIN last.after
        /\ last.after[Cut(last.content).name] = Unmask(last.val)
  /\ (/\ pc = "done"
      /\ data[4] = Plain(MaskedDefault)
      /\ Unbound(env0, X))
     => /\ ret = NoErr
        /\ X \in DOMAIN env /\ env[X] = LiteralDefault
        /\ root[4].Value = LiteralDefault

====
